---- MODULE Spec2Model ----
(***************************************************************************)
(* Model of backend/app/main.py of the Graph Explorer demo API: the static *)
(* evidence graph (NODES, EDGES filled by register_edge at import time),   *)
(* the two graph queries and the two-model prediction endpoint.            *)
(*                                                                         *)
(* Numbers.  Python floats are modelled as exact decimals in fixed point.  *)
(* Prediction values are integers in units of 1/SCALE (1e-5); every        *)
(* coefficient of predict has one decimal and the inputs are drawn from    *)
(* multiples of 0.1, so every product below is exact.  Edge parameters are *)
(* integers in units of 1e-4.  Free-text fields of the literals            *)
(* (descriptions, titles, summaries, populations, notes, outcome measure   *)
(* lists) carry no logic and are left out of the records.                  *)
(***************************************************************************)
EXTENDS Integers, Sequences, FiniteSets, TLC

VARIABLES NODES, EDGES, loaded, request, response, pc, treq, frame, tresp

vars == <<NODES, EDGES, loaded, request, response, pc, treq, frame, tresp>>

(***************************************************************************)
(* Bounds of the model                                                     *)
(***************************************************************************)
\* predict inputs are k * InputStep tenths, k in -NegSteps .. PosSteps
InputStep == 2
NegSteps == 2
PosSteps == 7
\* number of concurrently served requests in SpecConc
NumThreads == 2
\* predict inputs of the concurrent specification: 0 .. ConcSteps units of 1.0
ConcSteps == 1

(***************************************************************************)
(* Static literals                                                         *)
(***************************************************************************)
Node(id, label, level, group) ==
    [id |-> id, label |-> label, level |-> level, group |-> group]

NodesDecl ==
    << Node("wood_coverage", "Wood Coverage", "attribute", "materials"),
       Node("plant_density", "Plant Density", "attribute", "biophilia"),
       Node("spatial_clutter", "Spatial Clutter", "attribute", "layout"),
       Node("glare_index", "Glare Index", "attribute", "lighting"),
       Node("perceived_warmth", "Perceived Warmth", "mediator", "perceptual"),
       Node("perceived_naturalness", "Perceived Naturalness", "mediator", "perceptual"),
       Node("cognitive_load", "Cognitive Load", "mediator", "cognitive"),
       Node("positive_affect", "Positive Affect", "mediator", "affective"),
       Node("state_anxiety", "State Anxiety", "outcome", "affective"),
       Node("perceived_stress", "Perceived Stress", "outcome", "affective"),
       Node("task_performance", "Task Performance", "outcome", "cognitive") >>

EvidenceItem(id, dir, design, doi, quality) ==
    [id |-> id, effect_direction |-> dir, design |-> design, doi |-> doi,
     quality |-> quality]

\* one element per register_edge call of the module, in source order;
\* mean and sd in units of 1e-4
Call(edge_id, from_node, to_node, mean, sd, status, evidence) ==
    [edge_id |-> edge_id, from_node |-> from_node, to_node |-> to_node,
     mean |-> mean, sd |-> sd, status |-> status, evidence |-> evidence]

REGISTRATIONS ==
    << Call("wood_coverage->perceived_warmth", "wood_coverage", "perceived_warmth",
            4500, 1000, "supported",
            << EvidenceItem("li2021_wood_use", "beneficial",
                            "Within-subjects lab experiment",
                            "10.1007/s00226-021-01320-7", "moderate") >>),
       Call("wood_coverage->perceived_naturalness", "wood_coverage", "perceived_naturalness",
            4000, 1200, "supported",
            << EvidenceItem("jalilzadehazhari2019_wood_surfaces", "beneficial",
                            "Lab-based exposure study",
                            "10.1080/17480272.2019.1575901", "moderate") >>),
       Call("plant_density->perceived_naturalness", "plant_density", "perceived_naturalness",
            5000, 1200, "experimentally_validated",
            << EvidenceItem("yin2020_biophilic_vr", "beneficial",
                            "Between-subjects VR experiment",
                            "10.1016/j.envint.2019.105427", "high"),
               EvidenceItem("lee2015_indoor_plants", "beneficial",
                            "Randomized crossover experiment",
                            "10.1186/s40101-015-0060-8", "high") >>),
       Call("plant_density->positive_affect", "plant_density", "positive_affect",
            3500, 1000, "supported",
            << EvidenceItem("yin2020_biophilic_vr_positive", "beneficial",
                            "Between-subjects VR experiment",
                            "10.1016/j.envint.2019.105427", "high") >>),
       Call("spatial_clutter->cognitive_load", "spatial_clutter", "cognitive_load",
            3000, 1000, "hypothesized", << >>),
       Call("glare_index->cognitive_load", "glare_index", "cognitive_load",
            3500, 1000, "hypothesized", << >>),
       Call("perceived_warmth->positive_affect", "perceived_warmth", "positive_affect",
            2500, 800, "hypothesized", << >>),
       Call("perceived_naturalness->positive_affect", "perceived_naturalness", "positive_affect",
            4000, 900, "supported",
            << EvidenceItem("yin2020_biophilic_vr_mood", "beneficial",
                            "Between-subjects VR experiment",
                            "10.1016/j.envint.2019.105427", "high") >>),
       Call("positive_affect->state_anxiety", "positive_affect", "state_anxiety",
            -5000, 1200, "supported", << >>),
       Call("cognitive_load->state_anxiety", "cognitive_load", "state_anxiety",
            3000, 1100, "hypothesized", << >>),
       Call("cognitive_load->task_performance", "cognitive_load", "task_performance",
            -3500, 1000, "supported", << >>),
       Call("state_anxiety->task_performance", "state_anxiety", "task_performance",
            -3000, 1000, "supported", << >>),
       Call("perceived_naturalness->perceived_stress", "perceived_naturalness", "perceived_stress",
            -4000, 1000, "supported", << >>),
       Call("positive_affect->perceived_stress", "positive_affect", "perceived_stress",
            -3500, 1000, "supported", << >>) >>

(***************************************************************************)
(* Python dict: insertion-ordered mapping, modelled as a sequence of       *)
(* [k, v] items with pairwise distinct keys.                               *)
(***************************************************************************)
DictHas(d, key) == \E i \in 1..Len(d) : d[i].k = key

DictIndex(d, key) == CHOOSE i \in 1..Len(d) : d[i].k = key

\* d[key] = val : an existing key keeps its position, a new key goes last
DictSet(d, key, val) ==
    IF DictHas(d, key)
    THEN [d EXCEPT ![DictIndex(d, key)] = [k |-> key, v |-> val]]
    ELSE Append(d, [k |-> key, v |-> val])

None == [none |-> TRUE]

DictGetWithDefault(d, key) == IF DictHas(d, key) THEN d[DictIndex(d, key)].v ELSE d[1].v

\* d.get(key)
DictGet(d, key) == IF DictHas(d, key) THEN d[DictIndex(d, key)].v ELSE None

\* d.values()
DictValues(d) == [i \in 1..Len(d) |-> d[i].v]

(***************************************************************************)
(* Graph store construction                                                *)
(***************************************************************************)
\* default ci_width of p, in hundredths (1.96)
CI_WIDTH == 196

\* p(mean, sd): ParamSummary with the 95% interval
p(mean, sd) ==
    [mean |-> mean, sd |-> sd,
     ci_lower |-> mean - (CI_WIDTH * sd) \div 100,
     ci_upper |-> mean + (CI_WIDTH * sd) \div 100]

\* `evidence or []`
EvidenceOrEmpty(evidence) == IF Len(evidence) = 0 THEN << >> ELSE evidence

MakeEdgeDetailIdAsSource(c) ==
    [id |-> c.edge_id, from_node |-> c.edge_id, to_node |-> c.to_node,
     status |-> c.status, param |-> p(c.mean, c.sd),
     evidence |-> EvidenceOrEmpty(c.evidence)]

\* the EdgeDetail that register_edge builds
MakeEdgeDetail(c) ==
    [id |-> c.edge_id, from_node |-> c.from_node, to_node |-> c.to_node,
     status |-> c.status, param |-> p(c.mean, c.sd),
     evidence |-> EvidenceOrEmpty(c.evidence)]

\* register_edge: EDGES[edge_id] = EdgeDetail(...)
RegisterEdgeInto(d, c) == DictSet(d, c.edge_id, MakeEdgeDetail(c))

(***************************************************************************)
(* Query handlers                                                          *)
(***************************************************************************)
GraphEdgeSameEnds(ed) ==
    [id |-> ed.id, from_node |-> ed.from_node, to_node |-> ed.from_node,
     status |-> ed.status, param |-> ed.param]

\* GraphEdge(id=ed.id, from_node=..., to_node=..., status=..., param=ed.param)
GraphEdge(ed) ==
    [id |-> ed.id, from_node |-> ed.from_node, to_node |-> ed.to_node,
     status |-> ed.status, param |-> ed.param]

\* get_demo_graph, whole handler
GetDemoGraphResult(nodes, edges) ==
    [status |-> 200,
     nodes |-> nodes,
     edges |-> [i \in 1..Len(edges) |-> GraphEdge(DictValues(edges)[i])]]

\* `not ed` : None is falsy, a pydantic model instance is truthy
Falsy(ed) == ed = None

NotFound == [status |-> 404, detail |-> "Edge not found"]

\* get_edge_detail, whole handler
GetEdgeDetailResult(edges, edge_id) ==
    LET ed == DictGet(edges, edge_id)
    IN  IF Falsy(ed) THEN NotFound ELSE [status |-> 200, body |-> ed]

(***************************************************************************)
(* Prediction engine                                                       *)
(***************************************************************************)
\* fixed-point unit: the float 1.0
SCALE == 100000

\* the float 0.1
TENTH == SCALE \div 10

\* (c / 10) * x for a one-decimal coefficient c / 10
Coef(c, x) == (c * x) \div 10

\* x * y where y is a request field (a multiple of 0.1)
Mul(x, y) == (x * (y \div TENTH)) \div 10

Max(a, b) == IF a >= b THEN a ELSE b

Min(a, b) == IF a <= b THEN a ELSE b

clip01(x) == Max(0, Min(SCALE, x))

perceived_warmth(w, glare) == 3 * TENTH + Coef(8, w) - Coef(2, glare)

perceived_naturalness(w, plants, clutter) ==
    2 * TENTH + Coef(9, w) + Coef(9, plants) - Coef(1, clutter)

cognitive_load(plants, clutter, glare) ==
    5 * TENTH + Coef(4, clutter) + Coef(4, glare) - Coef(2, plants)

positive_affect(pw, pn, cl) ==
    3 * TENTH + Coef(6, pw) + Coef(5, pn) - Coef(3, cl)

state_anxiety_early_clip(pa, cl) == 7 * TENTH - Coef(7, clip01(pa)) + Coef(4, cl)

state_anxiety(pa, cl) == 7 * TENTH - Coef(7, pa) + Coef(4, cl)

perceived_stress(pn, pa, cl) ==
    6 * TENTH - Coef(6, pn) - Coef(5, pa) + Coef(3, cl)

task_performance(pa, cl, sa) ==
    5 * TENTH + Coef(6, pa) - Coef(5, cl) - Coef(4, sa)

synergy_negated(w, plants) == 0 - Mul(Coef(3, w), plants)

synergy(w, plants) == Mul(Coef(3, w), plants)

positive_affect_b_unclipped(pa, syn) == pa + syn

positive_affect_b(pa, syn) == clip01(pa + syn)

state_anxiety_b(pa_b, cl) == clip01(7 * TENTH - Coef(7, pa_b) + Coef(4, cl))

task_performance_b(pa_b, cl, sa_b) ==
    clip01(5 * TENTH + Coef(6, pa_b) - Coef(5, cl) - Coef(4, sa_b))

perceived_stress_b(pn, pa_b, cl) ==
    clip01(6 * TENTH - Coef(6, pn) - Coef(5, pa_b) + Coef(3, cl))

\* the (node_id, label, value) triples of model_a_nodes
model_a_nodes(pw, pn, cl, pa, sa, ps, tp) ==
    << <<"perceived_warmth", "Perceived Warmth", clip01(pw)>>,
       <<"perceived_naturalness", "Perceived Naturalness", clip01(pn)>>,
       <<"cognitive_load", "Cognitive Load", clip01(cl)>>,
       <<"positive_affect", "Positive Affect", clip01(pa)>>,
       <<"state_anxiety", "State Anxiety", clip01(sa)>>,
       <<"perceived_stress", "Perceived Stress", clip01(ps)>>,
       <<"task_performance", "Task Performance", clip01(tp)>> >>

model_b_nodes_computation_order(pw, pn, cl, pa_b, sa_b, ps_b, tp_b) ==
    << <<"perceived_warmth", "Perceived Warmth", clip01(pw)>>,
       <<"perceived_naturalness", "Perceived Naturalness", clip01(pn)>>,
       <<"cognitive_load", "Cognitive Load", clip01(cl)>>,
       <<"positive_affect", "Positive Affect", pa_b>>,
       <<"state_anxiety", "State Anxiety", sa_b>>,
       <<"task_performance", "Task Performance", tp_b>>,
       <<"perceived_stress", "Perceived Stress", ps_b>> >>

\* the (node_id, label, value) triples of model_b_nodes
model_b_nodes(pw, pn, cl, pa_b, sa_b, ps_b, tp_b) ==
    << <<"perceived_warmth", "Perceived Warmth", clip01(pw)>>,
       <<"perceived_naturalness", "Perceived Naturalness", clip01(pn)>>,
       <<"cognitive_load", "Cognitive Load", clip01(cl)>>,
       <<"positive_affect", "Positive Affect", pa_b>>,
       <<"state_anxiety", "State Anxiety", sa_b>>,
       <<"perceived_stress", "Perceived Stress", ps_b>>,
       <<"task_performance", "Task Performance", tp_b>> >>

\* the CI half-widths of the two models (0.15 and 0.12)
WIDTH_A == 15000

WIDTH_B == 12000

NodePredictionUnclamped(nid, label, val, width) ==
    [node_id |-> nid, label |-> label, mean |-> val,
     ci_lower |-> val - width, ci_upper |-> val + width]

\* NodePrediction(node_id, label, mean, ci_lower=max(0, ..), ci_upper=min(1, ..))
NodePrediction(nid, label, val, width) ==
    [node_id |-> nid, label |-> label, mean |-> val,
     ci_lower |-> Max(0, val - width), ci_upper |-> Min(SCALE, val + width)]

\* the loops building model_a_preds / model_b_preds
Preds(nodes, width) ==
    [i \in 1..Len(nodes) |-> NodePrediction(nodes[i][1], nodes[i][2], nodes[i][3], width)]

\* predict up to model_a_preds
ModelAPreds(req) ==
    LET w == req.wood_coverage
        plants == req.plant_density
        clutter == req.spatial_clutter
        glare == req.glare_index
        pw == perceived_warmth(w, glare)
        pn == perceived_naturalness(w, plants, clutter)
        cl == cognitive_load(plants, clutter, glare)
        pa == positive_affect(pw, pn, cl)
        sa == state_anxiety(pa, cl)
        ps == perceived_stress(pn, pa, cl)
        tp == task_performance(pa, cl, sa)
    IN  Preds(model_a_nodes(pw, pn, cl, pa, sa, ps, tp), WIDTH_A)

\* predict from the synergy term to model_b_preds
ModelBPreds(req) ==
    LET w == req.wood_coverage
        plants == req.plant_density
        clutter == req.spatial_clutter
        glare == req.glare_index
        pw == perceived_warmth(w, glare)
        pn == perceived_naturalness(w, plants, clutter)
        cl == cognitive_load(plants, clutter, glare)
        pa == positive_affect(pw, pn, cl)
        pa_b == positive_affect_b(pa, synergy(w, plants))
        sa_b == state_anxiety_b(pa_b, cl)
        tp_b == task_performance_b(pa_b, cl, sa_b)
        ps_b == perceived_stress_b(pn, pa_b, cl)
    IN  Preds(model_b_nodes(pw, pn, cl, pa_b, sa_b, ps_b, tp_b), WIDTH_B)

\* predict, whole handler
PredictResult(req) ==
    [status |-> 200, model_a |-> ModelAPreds(req), model_b |-> ModelBPreds(req)]

(***************************************************************************)
(* Requests                                                                *)
(***************************************************************************)
RegisteredIds == {REGISTRATIONS[i].edge_id : i \in 1..Len(REGISTRATIONS)}

\* ids that no register_edge call uses: unknown, empty, a prefix, a node id,
\* a reversed edge, a different case
ProbeIds ==
    {"foo->bar", "", "plant_density->perceived", "plant_density",
     "perceived_naturalness->plant_density", "Plant_Density->Perceived_Naturalness"}

EdgeIdInputs == RegisteredIds \cup ProbeIds

\* predict inputs, as fixed-point floats
Inputs == {k * InputStep * TENTH : k \in (0 - NegSteps)..PosSteps}

GraphRequest == [op |-> "get_demo_graph"]

EdgeRequest(edge_id) == [op |-> "get_edge_detail", edge_id |-> edge_id]

PredictRequest(w, plants, clutter, glare) ==
    [op |-> "predict", wood_coverage |-> w, plant_density |-> plants,
     spatial_clutter |-> clutter, glare_index |-> glare]

NoRequest == [op |-> "none"]

NoResponse == [status |-> 0]

(***************************************************************************)
(* Sequential specification: module import, then one request at a time:    *)
(* a handler runs as one step when no request is pending, and the server   *)
(* then sends the response and waits again.                                *)
(***************************************************************************)
Threads == 1..NumThreads

\* a fresh frame: no brief edges yet, the iterator before the first value
EmptyFrame == [edges_brief |-> << >>, it |-> 1, ed |-> None, model_a_preds |-> << >>]

\* the module after `EDGES: Dict[str, EdgeDetail] = {}`
Init ==
    /\ NODES = NodesDecl
    /\ EDGES = << >>
    /\ loaded = 0
    /\ request = NoRequest
    /\ response = NoResponse
    /\ pc = [t \in Threads |-> "idle"]
    /\ treq = [t \in Threads |-> NoRequest]
    /\ frame = [t \in Threads |-> EmptyFrame]
    /\ tresp = [t \in Threads |-> NoResponse]

\* the import has run every register_edge call; the app serves requests
Serving == loaded = Len(REGISTRATIONS)

\* the next module-level register_edge(...) statement
RegisterEdge ==
    /\ loaded < Len(REGISTRATIONS)
    /\ EDGES' = RegisterEdgeInto(EDGES, REGISTRATIONS[loaded + 1])
    /\ loaded' = loaded + 1
    /\ UNCHANGED <<NODES, request, response, pc, treq, frame, tresp>>

GetDemoGraph ==
    /\ Serving
    /\ request = NoRequest
    /\ request' = GraphRequest
    /\ response' = GetDemoGraphResult(NODES, EDGES)
    /\ UNCHANGED <<NODES, EDGES, loaded, pc, treq, frame, tresp>>

GetEdgeDetail ==
    /\ Serving
    /\ request = NoRequest
    /\ \E edge_id \in EdgeIdInputs :
         /\ request' = EdgeRequest(edge_id)
         /\ response' = GetEdgeDetailResult(EDGES, edge_id)
    /\ UNCHANGED <<NODES, EDGES, loaded, pc, treq, frame, tresp>>

Predict ==
    /\ Serving
    /\ request = NoRequest
    /\ \E w \in Inputs, plants \in Inputs, clutter \in Inputs, glare \in Inputs :
         /\ request' = PredictRequest(w, plants, clutter, glare)
         /\ response' = PredictResult(request')
    /\ UNCHANGED <<NODES, EDGES, loaded, pc, treq, frame, tresp>>

\* the response has been sent; the server waits for the next request
Respond ==
    /\ request # NoRequest
    /\ request' = NoRequest
    /\ response' = NoResponse
    /\ UNCHANGED <<NODES, EDGES, loaded, pc, treq, frame, tresp>>

Next == RegisterEdge \/ GetDemoGraph \/ GetEdgeDetail \/ Predict \/ Respond

Spec == Init /\ [][Next]_vars

(***************************************************************************)
(* Concurrent specification: the handlers are plain `def` endpoints, which *)
(* the server runs on worker threads.  Each thread executes one handler at *)
(* a time, one statement group per step; the steps of different threads    *)
(* interleave freely.  A handler's local variables live in its own frame.  *)
(***************************************************************************)
SharedSlot(t) == 1

\* the frame holding the local variables of the call running on thread t
LocalSlot(t) == t

ConcEdgeIds ==
    {"plant_density->perceived_naturalness", "spatial_clutter->cognitive_load", "foo->bar"}

ConcInputs == {k * SCALE : k \in 0..ConcSteps}

Local(t) == frame[LocalSlot(t)]

\* get_demo_graph: edges_brief = [] and the iterator over EDGES.values()
StartGraph(t) ==
    /\ Serving
    /\ pc[t] = "idle"
    /\ treq' = [treq EXCEPT ![t] = GraphRequest]
    /\ frame' = [frame EXCEPT ![LocalSlot(t)] = EmptyFrame]
    /\ pc' = [pc EXCEPT ![t] = "graph_loop"]
    /\ UNCHANGED <<NODES, EDGES, loaded, request, response, tresp>>

\* one iteration of `for ed in EDGES.values(): edges_brief.append(GraphEdge(...))`
GraphLoop(t) ==
    /\ pc[t] = "graph_loop"
    /\ Local(t).it <= Len(EDGES)
    /\ frame' = [frame EXCEPT ![LocalSlot(t)] =
                   [@ EXCEPT !.edges_brief = Append(@, GraphEdge(DictValues(EDGES)[Local(t).it])),
                             !.it = @ + 1]]
    /\ UNCHANGED <<NODES, EDGES, loaded, request, response, pc, treq, tresp>>

\* return GraphPayload(nodes=NODES, edges=edges_brief)
GraphReturn(t) ==
    /\ pc[t] = "graph_loop"
    /\ Local(t).it > Len(EDGES)
    /\ tresp' = [tresp EXCEPT ![t] =
                   [status |-> 200, nodes |-> NODES, edges |-> Local(t).edges_brief]]
    /\ pc' = [pc EXCEPT ![t] = "done"]
    /\ UNCHANGED <<NODES, EDGES, loaded, request, response, treq, frame>>

StartEdge(t) ==
    /\ Serving
    /\ pc[t] = "idle"
    /\ \E edge_id \in ConcEdgeIds : treq' = [treq EXCEPT ![t] = EdgeRequest(edge_id)]
    /\ frame' = [frame EXCEPT ![LocalSlot(t)] = EmptyFrame]
    /\ pc' = [pc EXCEPT ![t] = "edge_get"]
    /\ UNCHANGED <<NODES, EDGES, loaded, request, response, tresp>>

\* ed = EDGES.get(edge_id)
EdgeGet(t) ==
    /\ pc[t] = "edge_get"
    /\ frame' = [frame EXCEPT ![LocalSlot(t)].ed = DictGet(EDGES, treq[t].edge_id)]
    /\ pc' = [pc EXCEPT ![t] = "edge_check"]
    /\ UNCHANGED <<NODES, EDGES, loaded, request, response, treq, tresp>>

\* if not ed: raise HTTPException(404) ; return ed
EdgeReturn(t) ==
    /\ pc[t] = "edge_check"
    /\ tresp' = [tresp EXCEPT ![t] =
                   IF Falsy(Local(t).ed) THEN NotFound
                   ELSE [status |-> 200, body |-> Local(t).ed]]
    /\ pc' = [pc EXCEPT ![t] = "done"]
    /\ UNCHANGED <<NODES, EDGES, loaded, request, response, treq, frame>>

StartPredict(t) ==
    /\ Serving
    /\ pc[t] = "idle"
    /\ \E w \in ConcInputs, plants \in ConcInputs :
         treq' = [treq EXCEPT ![t] = PredictRequest(w, plants, 0, 0)]
    /\ frame' = [frame EXCEPT ![LocalSlot(t)] = EmptyFrame]
    /\ pc' = [pc EXCEPT ![t] = "predict_a"]
    /\ UNCHANGED <<NODES, EDGES, loaded, request, response, tresp>>

\* the shared transforms and the Model A loop
PredictA(t) ==
    /\ pc[t] = "predict_a"
    /\ frame' = [frame EXCEPT ![LocalSlot(t)].model_a_preds = ModelAPreds(treq[t])]
    /\ pc' = [pc EXCEPT ![t] = "predict_b"]
    /\ UNCHANGED <<NODES, EDGES, loaded, request, response, treq, tresp>>

\* the Model B loop and return PredictResponse(...)
PredictB(t) ==
    /\ pc[t] = "predict_b"
    /\ tresp' = [tresp EXCEPT ![t] =
                   [status |-> 200, model_a |-> Local(t).model_a_preds,
                    model_b |-> ModelBPreds(treq[t])]]
    /\ pc' = [pc EXCEPT ![t] = "done"]
    /\ UNCHANGED <<NODES, EDGES, loaded, request, response, treq, frame>>

\* the response is sent and the worker thread is free again
Release(t) ==
    /\ pc[t] = "done"
    /\ pc' = [pc EXCEPT ![t] = "idle"]
    /\ treq' = [treq EXCEPT ![t] = NoRequest]
    /\ tresp' = [tresp EXCEPT ![t] = NoResponse]
    /\ frame' = [frame EXCEPT ![LocalSlot(t)] = EmptyFrame]
    /\ UNCHANGED <<NODES, EDGES, loaded, request, response>>

NextConc ==
    \/ RegisterEdge
    \/ \E t \in Threads : StartGraph(t)
    \/ \E t \in Threads : GraphLoop(t)
    \/ \E t \in Threads : GraphReturn(t)
    \/ \E t \in Threads : StartEdge(t)
    \/ \E t \in Threads : EdgeGet(t)
    \/ \E t \in Threads : EdgeReturn(t)
    \/ \E t \in Threads : StartPredict(t)
    \/ \E t \in Threads : PredictA(t)
    \/ \E t \in Threads : PredictB(t)
    \/ \E t \in Threads : Release(t)

SpecConc == Init /\ [][NextConc]_vars

(***************************************************************************)
(* Reference values used by the properties.  They restate the formulas of  *)
(* the prediction algorithm over the request fields counted in tenths,     *)
(* in units of 1e-5, independently of the operators above.                 *)
(***************************************************************************)
Tenths(x) == x \div 10000

RefClip(x) == IF x < 0 THEN 0 ELSE IF x > 100000 THEN 100000 ELSE x

RefWarmth(r) == 30000 + 8000 * Tenths(r.wood_coverage) - 2000 * Tenths(r.glare_index)

RefNaturalness(r) ==
    20000 + 9000 * Tenths(r.wood_coverage) + 9000 * Tenths(r.plant_density)
          - 1000 * Tenths(r.spatial_clutter)

RefLoad(r) ==
    50000 + 4000 * Tenths(r.spatial_clutter) + 4000 * Tenths(r.glare_index)
          - 2000 * Tenths(r.plant_density)

RefAffect(r) == 30000 + (6 * RefWarmth(r) + 5 * RefNaturalness(r) - 3 * RefLoad(r)) \div 10

\* steps 5, 6, 7 as functions of the affect value they are given
RefAnxietyOf(r, affect) == 70000 + (4 * RefLoad(r) - 7 * affect) \div 10

RefStressOf(r, affect) ==
    60000 + (3 * RefLoad(r) - 6 * RefNaturalness(r) - 5 * affect) \div 10

RefPerformanceOf(r, affect, anxiety) ==
    50000 + (6 * affect - 5 * RefLoad(r) - 4 * anxiety) \div 10

RefModelA(r) ==
    << RefClip(RefWarmth(r)), RefClip(RefNaturalness(r)), RefClip(RefLoad(r)),
       RefClip(RefAffect(r)),
       RefClip(RefAnxietyOf(r, RefAffect(r))),
       RefClip(RefStressOf(r, RefAffect(r))),
       RefClip(RefPerformanceOf(r, RefAffect(r), RefAnxietyOf(r, RefAffect(r)))) >>

RefAffectB(r) ==
    RefClip(RefAffect(r) + 300 * Tenths(r.wood_coverage) * Tenths(r.plant_density))

RefModelB(r) ==
    << RefClip(RefWarmth(r)), RefClip(RefNaturalness(r)), RefClip(RefLoad(r)),
       RefAffectB(r),
       RefClip(RefAnxietyOf(r, RefAffectB(r))),
       RefClip(RefStressOf(r, RefAffectB(r))),
       RefClip(RefPerformanceOf(r, RefAffectB(r), RefAnxietyOf(r, RefAffectB(r)))) >>

FixedOrder ==
    << "perceived_warmth", "perceived_naturalness", "cognitive_load", "positive_affect",
       "state_anxiety", "perceived_stress", "task_performance" >>

Means(preds) == [i \in 1..Len(preds) |-> preds[i].mean]

NodeIds(preds) == [i \in 1..Len(preds) |-> preds[i].node_id]

IsPredict == request.op = "predict"

AllZero ==
    /\ IsPredict
    /\ request.wood_coverage = 0 /\ request.plant_density = 0
    /\ request.spatial_clutter = 0 /\ request.glare_index = 0

ModelAFollowsSteps ==
    IsPredict =>
        /\ Len(response.model_a) = 7
        /\ NodeIds(response.model_a) = FixedOrder
        /\ Means(response.model_a) = RefModelA(request)

(***************************************************************************)
(* Properties                                                              *)
(***************************************************************************)

\* C1 (as stated): model_a is the seven records in the fixed order, each mean
\* the clip01 of its step formula over the unclipped earlier steps, and for the
\* all-zero input the means are 0.3, 0.2, 0.5, 0.33, 0.669, 0.465, 0.1804.
C1_AsStated ==
    /\ ModelAFollowsSteps
    /\ AllZero => Means(response.model_a) = <<30000, 20000, 50000, 33000, 66900, 46500, 18040>>

\* C1 (amended): model_a is the seven records in the fixed order, each mean the
\* clip01 of its step formula over the unclipped earlier steps, and for the
\* all-zero input the means are 0.3, 0.2, 0.5, 0.43, 0.599, 0.415, 0.2684.
C1_ModelA ==
    /\ ModelAFollowsSteps
    /\ AllZero => Means(response.model_a) = <<30000, 20000, 50000, 43000, 59900, 41500, 26840>>

\* a prediction whose unclipped positive_affect exceeds 1 while the reported
\* task_performance lies strictly inside (0, 1)
C1_Witness ==
    /\ IsPredict
    /\ RefAffect(request) > 100000
    /\ response.model_a[4].mean = 100000
    /\ response.model_a[7].mean > 0 /\ response.model_a[7].mean < 100000

\* C2: the model_b means are the reference: positive_affect_b is the clipped
\* affect plus synergy; anxiety, stress and performance are the clipped step
\* 5, 6, 7 formulas over positive_affect_b, the unclipped load and naturalness
\* and the unclipped step-5 value; warmth, naturalness and load as in model_a.
C2_ModelB ==
    IsPredict =>
        /\ Len(response.model_b) = 7
        /\ Means(response.model_b) = RefModelB(request)
        /\ \A i \in 1..3 : response.model_b[i].mean = response.model_a[i].mean

\* a prediction where the unclipped step-5 value of Model B is outside [0, 1],
\* so that the clipped and the unclipped anxiety differ
C2_Witness ==
    /\ IsPredict
    /\ RefAnxietyOf(request, RefAffectB(request)) < 0
    /\ response.model_b[5].mean = 0

\* C3: each of the 14 records has 0 <= ci_lower <= mean <= ci_upper <= 1,
\* whatever the inputs.
C3_Bands ==
    IsPredict =>
        \A preds \in {response.model_a, response.model_b} :
            \A i \in 1..Len(preds) :
                /\ 0 <= preds[i].ci_lower
                /\ preds[i].ci_lower <= preds[i].mean
                /\ preds[i].mean <= preds[i].ci_upper
                /\ preds[i].ci_upper <= 100000

\* a prediction for a negative input whose unclipped warmth is negative
C3_Witness ==
    /\ IsPredict
    /\ request.wood_coverage < 0
    /\ RefWarmth(request) < 0
    /\ response.model_a[1].ci_lower = 0

\* C4: with wood_coverage >= 0 and plant_density >= 0 the positive_affect mean
\* of model_b is at least that of model_a.
C4_SynergyMonotone ==
    (IsPredict /\ request.wood_coverage >= 0 /\ request.plant_density >= 0) =>
        response.model_b[4].mean >= response.model_a[4].mean

\* a prediction with a positive synergy term that raises positive_affect
C4_Witness ==
    /\ IsPredict
    /\ request.wood_coverage > 0 /\ request.plant_density > 0
    /\ response.model_b[4].mean > response.model_a[4].mean

CallOf(edge_id) ==
    REGISTRATIONS[CHOOSE i \in 1..Len(REGISTRATIONS) : REGISTRATIONS[i].edge_id = edge_id]

\* C5: get_edge_detail is an exact-match lookup: a registered id yields the
\* EdgeDetail registered under that id (always the same data; the example edge
\* is experimentally_validated with 2 evidence items), any other id yields
\* 404 "Edge not found".
C5_ExactLookup ==
    request.op = "get_edge_detail" =>
        IF request.edge_id \in RegisteredIds
        THEN /\ response.status = 200
             /\ response.body.id = request.edge_id
             /\ response.body.from_node = CallOf(request.edge_id).from_node
             /\ response.body.to_node = CallOf(request.edge_id).to_node
             /\ response.body.status = CallOf(request.edge_id).status
             /\ response.body.param.mean = CallOf(request.edge_id).mean
             /\ response.body.evidence = CallOf(request.edge_id).evidence
             /\ request.edge_id = "plant_density->perceived_naturalness" =>
                  /\ response.body.status = "experimentally_validated"
                  /\ Len(response.body.evidence) = 2
        ELSE response = [status |-> 404, detail |-> "Edge not found"]

\* a lookup of a proper prefix of a registered id, answered with 404
C5_Witness ==
    /\ request.op = "get_edge_detail"
    /\ request.edge_id = "plant_density->perceived"
    /\ response.status = 404

\* C6: every edge of the graph listing has from_node and to_node among the ids
\* of the listed nodes.
C6_ReferentialIntegrity ==
    request.op = "get_demo_graph" =>
        LET ids == {response.nodes[i].id : i \in 1..Len(response.nodes)}
        IN  \A i \in 1..Len(response.edges) :
                /\ response.edges[i].from_node \in ids
                /\ response.edges[i].to_node \in ids

\* a graph listing holding all registered edges
C6_Witness ==
    /\ request.op = "get_demo_graph"
    /\ Len(response.edges) = Len(REGISTRATIONS)
    /\ Len(response.nodes) = 11

\* C7: the graph listing has all nodes in declared order and one brief edge per
\* registered id, in registration order and without duplicates; each brief edge
\* agrees with the EdgeDetail of its id on id, from_node, to_node, status and
\* param, and has no evidence field.
C7_Listing ==
    request.op = "get_demo_graph" =>
        /\ response.nodes = NodesDecl
        /\ Len(response.edges) = Len(REGISTRATIONS)
        /\ \A i \in 1..Len(response.edges) :
             /\ response.edges[i].id = REGISTRATIONS[i].edge_id
             /\ \A j \in 1..Len(response.edges) :
                  response.edges[i].id = response.edges[j].id => i = j
             /\ DOMAIN response.edges[i] = {"id", "from_node", "to_node", "status", "param"}
             /\ LET detail == GetEdgeDetailResult(EDGES, response.edges[i].id)
                IN  /\ detail.status = 200
                    /\ response.edges[i].id = detail.body.id
                    /\ response.edges[i].from_node = detail.body.from_node
                    /\ response.edges[i].to_node = detail.body.to_node
                    /\ response.edges[i].status = detail.body.status
                    /\ response.edges[i].param = detail.body.param

\* a graph listing whose third edge is the brief form of an edge that has two
\* evidence items in the store
C7_Witness ==
    /\ request.op = "get_demo_graph"
    /\ response.edges[3].id = "plant_density->perceived_naturalness"
    /\ Len(DictGet(EDGES, response.edges[3].id).evidence) = 2

RECURSIVE RegisterAll(_)
RegisterAll(n) ==
    IF n = 0 THEN << >> ELSE RegisterEdgeInto(RegisterAll(n - 1), REGISTRATIONS[n])

\* what a request returns when it runs with no other request in progress
AloneResult(req) ==
    CASE req.op = "get_demo_graph" -> GetDemoGraphResult(NodesDecl, RegisterAll(Len(REGISTRATIONS)))
      [] req.op = "get_edge_detail" ->
            GetEdgeDetailResult(RegisterAll(Len(REGISTRATIONS)), req.edge_id)
      [] req.op = "predict" -> PredictResult(req)

\* C8: once the module is imported, under any interleaving of requests NODES
\* and EDGES keep the value the import gave them and every finished request has
\* the result it has when run alone.
C8_NoInterference ==
    Serving =>
        /\ NODES = NodesDecl
        /\ EDGES = RegisterAll(Len(REGISTRATIONS))
        /\ \A t \in Threads : pc[t] = "done" => tresp[t] = AloneResult(treq[t])

\* a graph listing finished on one thread while another thread is in the
\* middle of its own listing loop
C8_Witness ==
    \E t \in Threads, u \in Threads :
        /\ t # u
        /\ pc[t] = "done" /\ treq[t].op = "get_demo_graph"
        /\ pc[u] = "graph_loop" /\ frame[u].it = 5

IsMediatorOrOutcome(n) == n.level \in {"mediator", "outcome"}

IdLabel(seq) == [i \in 1..Len(seq) |-> <<seq[i].id, seq[i].label>>]

PredIdLabel(preds) == [i \in 1..Len(preds) |-> <<preds[i].node_id, preds[i].label>>]

\* C9: the (node_id, label) pairs of model_a and of model_b are the (id, label)
\* pairs of the mediator and outcome nodes of NODES, in declaration order.
C9_NodeConsistency ==
    IsPredict =>
        /\ PredIdLabel(response.model_a) = IdLabel(SelectSeq(NODES, IsMediatorOrOutcome))
        /\ PredIdLabel(response.model_b) = IdLabel(SelectSeq(NODES, IsMediatorOrOutcome))

\* a prediction whose sixth record is the tenth declared node
C9_Witness ==
    /\ IsPredict
    /\ response.model_b[6].node_id = NODES[10].id
    /\ NODES[10].level = "outcome"

\* C10: with all four inputs in [0, 1] and wood_coverage * plant_density = 0,
\* every mean of model_b equals the corresponding mean of model_a.
C10_SameWithoutInteraction ==
    ( /\ IsPredict
      /\ \A x \in {request.wood_coverage, request.plant_density,
                   request.spatial_clutter, request.glare_index} : 0 <= x /\ x <= 100000
      /\ (request.wood_coverage = 0 \/ request.plant_density = 0) ) =>
        Means(response.model_b) = Means(response.model_a)

====
